---- MODULE Spec2Model ----
(***************************************************************************)
(* Session / authentication subsystem of the kt-25 server:                 *)
(*   - the in-memory one-time-code store   (server/src/utils/otp.store.js) *)
(*   - the JWT codec and the access guard  (server/src/config/jwt.js)      *)
(*   - the User model                      (server/src/models, User part)  *)
(*   - the auth controller                 (register, login, refreshToken, *)
(*                                          logout, sendOtp, verifyOtp)    *)
(*   - the route table                     (server/src/app.js)             *)
(* and its cart: the Product and Cart models and the cart controller       *)
(* (server/src/models, server/src/controllers/cartController.js).          *)
(*                                                                         *)
(* Strings whose characters the code inspects (phones, e-mails, codes) are *)
(* tuples of one-character strings.  Time is Date.now() in milliseconds.   *)
(***************************************************************************)
EXTENDS Integers, Sequences, FiniteSets, TLC

VARIABLES
    users,      \* the users collection: users[i] is the document with _id = i
    otpStore,   \* otp.store.js: the Map phone -> {otp, expiresAt}
    now,        \* Date.now(), milliseconds
    resp,       \* the last HTTP request handled and the response it got
    reqs,       \* the requests in flight (interleaved handlers), per slot
    last,       \* the last direct call of the code store and its result
    okCount,    \* per contact: verifyOtp calls that returned true since the last saveOtp
    issuedAt,   \* per contact: Date.now() at the last saveOtp
    started,    \* the number of requests the slots have taken
    env,        \* process.env as config/jwt.js reads it when the module loads
    codec,      \* the last direct call of the JWT codec and its result
    revoked,    \* the refresh-token strings removed from a record so far
    products,   \* the products collection: products[p] is the document with _id = p
    carts       \* the carts collection, by user id (user is a unique path)

vars == <<users, otpStore, now, resp, reqs, last, okCount, issuedAt, started, env, codec,
          revoked, products, carts>>

----------------------------------------------------------------------------
(* Bounds of the model *)

MaxUsers == 2
MaxTokens == 2
MaxConcTokens == 3
MaxRequests == 3

----------------------------------------------------------------------------
(* JavaScript values and strings *)

\* undefined, and the empty string; every string is a tuple
undefined == <<"undefined">>

EmptyString == <<>>

\* !x of a string-or-undefined value
Falsy(x) == x = undefined \/ x = EmptyString

DigitChars == <<"0", "1", "2", "3", "4", "5", "6", "7", "8", "9">>

IsDigitChar(c) == \E i \in 1..10 : DigitChars[i] = c

\* Number.prototype.toString() of a non-negative integer
RECURSIVE NumberToString(_)
NumberToString(n) ==
    IF n < 10 THEN <<DigitChars[n + 1]>>
    ELSE NumberToString(n \div 10) \o <<DigitChars[(n % 10) + 1]>>

\* String.prototype.trim()
RECURSIVE TrimLeft(_)
TrimLeft(s) == IF s # <<>> /\ Head(s) = " " THEN TrimLeft(Tail(s)) ELSE s

RECURSIVE TrimRight(_)
TrimRight(s) ==
    IF s # <<>> /\ s[Len(s)] = " " THEN TrimRight(SubSeq(s, 1, Len(s) - 1)) ELSE s

Trim(s) == TrimRight(TrimLeft(s))

LowerChar(c) ==
    CASE c = "A" -> "a"
      [] c = "B" -> "b"
      [] c = "X" -> "x"
      [] OTHER -> c

\* String.prototype.toLowerCase()
ToLowerCase(s) == [i \in 1..Len(s) |-> LowerChar(s[i])]

----------------------------------------------------------------------------
(* Inputs *)

PhoneA == <<"9", "9", "9", "9", "9", "9", "9", "9", "9", "9">>
PhoneB == <<"9", "8", "7", "6", "5", "4", "3", "2", "1", "0">>
PhoneShort == <<"1", "2", "3">>

ValidPhones == {PhoneA, PhoneB}

WrongOtp == <<"0", "0", "0", "0", "0", "0">>

\* Math.random() is in [0, 1), so Math.random() * 900000 is in [0, 900000): the
\* draws are its whole parts n, here the least and the greatest
RandomNumerators == {0, 899999}

----------------------------------------------------------------------------
(* One-time-code store: server/src/utils/otp.store.js *)

FiveMinutesMs == 5 * 60 * 1000

NoEntries == [c \in {} |-> undefined]

MapSet(m, k, v) == [c \in (DOMAIN m) \cup {k} |-> IF c = k THEN v ELSE m[c]]

\* mutant: otpStore.clear() in place of otpStore.delete(phone)
MapDelete_Clear(m, k) == NoEntries

MapDelete(m, k) == [c \in (DOMAIN m) \ {k} |-> m[c]]

\* mutant: no entry is ever expired
OtpExpired_Never(t, data) == FALSE

\* mutant: the entry lives ten minutes
OtpExpiry_TenMinutes(t) == t + 10 * 60 * 1000

OtpExpiry(t) == t + 5 * 60 * 1000

\* mutant: an entry that is there is kept
saveOtp_KeepsFirst(store, t, phone, otp) ==
    IF phone \in DOMAIN store THEN store
    ELSE MapSet(store, phone, [otp |-> otp, expiresAt |-> OtpExpiry(t)])

\* saveOtp(phone, otp): the store after the call
saveOtp(store, t, phone, otp) ==
    MapSet(store, phone, [otp |-> otp, expiresAt |-> OtpExpiry(t)])

OtpExpired(t, data) == t > data.expiresAt

\* mutant: a matching entry is not deleted
checkOtp_KeepsEntry(store, t, phone, otp) ==
    IF phone \notin DOMAIN store
    THEN [result |-> FALSE, store |-> store]
    ELSE IF OtpExpired(t, store[phone])
    THEN [result |-> FALSE, store |-> MapDelete(store, phone)]
    ELSE IF store[phone].otp # otp
    THEN [result |-> FALSE, store |-> store]
    ELSE [result |-> TRUE, store |-> store]

\* mutant: a wrong code uses the entry up
checkOtp_DeletesOnMismatch(store, t, phone, otp) ==
    IF phone \notin DOMAIN store
    THEN [result |-> FALSE, store |-> store]
    ELSE IF OtpExpired(t, store[phone])
    THEN [result |-> FALSE, store |-> MapDelete(store, phone)]
    ELSE IF store[phone].otp # otp
    THEN [result |-> FALSE, store |-> MapDelete(store, phone)]
    ELSE [result |-> TRUE, store |-> MapDelete(store, phone)]

\* mutant: an expired entry is left in the store
checkOtp_KeepsExpired(store, t, phone, otp) ==
    IF phone \notin DOMAIN store
    THEN [result |-> FALSE, store |-> store]
    ELSE IF OtpExpired(t, store[phone])
    THEN [result |-> FALSE, store |-> store]
    ELSE IF store[phone].otp # otp
    THEN [result |-> FALSE, store |-> store]
    ELSE [result |-> TRUE, store |-> MapDelete(store, phone)]

\* verifyOtp(phone, otp) of the store (imported by the controller as checkOtp):
\* the value returned and the store after the call
\* a caller with no entry is let through
checkOtp_AcceptsUnknown(store, t, phone, otp) ==
    IF phone \notin DOMAIN store
    THEN [result |-> TRUE, store |-> store]
    ELSE IF OtpExpired(t, store[phone])
    THEN [result |-> FALSE, store |-> MapDelete(store, phone)]
    ELSE IF store[phone].otp # otp
    THEN [result |-> FALSE, store |-> store]
    ELSE [result |-> TRUE, store |-> MapDelete(store, phone)]

checkOtp(store, t, phone, otp) ==
    IF phone \notin DOMAIN store
    THEN [result |-> FALSE, store |-> store]
    ELSE IF OtpExpired(t, store[phone])
    THEN [result |-> FALSE, store |-> MapDelete(store, phone)]
    ELSE IF store[phone].otp # otp
    THEN [result |-> FALSE, store |-> store]
    ELSE [result |-> TRUE, store |-> MapDelete(store, phone)]

\* sendOtp's code: Math.floor(100000 + Math.random() * 900000).toString()
\* (n is the whole part of Math.random() * 900000)
GenerateOtp(n) == NumberToString(100000 + n)

OtpCodes == {GenerateOtp(k) : k \in RandomNumerators}

----------------------------------------------------------------------------
(* JWT configuration and codec: server/src/config/jwt.js *)

EnvSet == [JWT_ACCESS_SECRET |-> "env_access_secret",
           JWT_REFRESH_SECRET |-> "env_refresh_secret"]

\* config: process.env.X || fallback
LoadConfig(e) ==
    [accessSecret |-> IF e.JWT_ACCESS_SECRET = "" 
                      THEN "fallback_access_secret_key_very_secure"
                      ELSE e.JWT_ACCESS_SECRET,
     refreshSecret |-> IF e.JWT_REFRESH_SECRET = ""
                       THEN "fallback_refresh_secret_key_very_secure"
                       ELSE e.JWT_REFRESH_SECRET,
     accessExpiry |-> [n |-> 15, unit |-> "m"],
     refreshExpiry |-> [n |-> 7, unit |-> "d"]]

\* the environments a deployment can give: each key configured or not (an unset
\* variable and an empty one are both falsy to ||)
Environments ==
    {[JWT_ACCESS_SECRET |-> a, JWT_REFRESH_SECRET |-> r] :
        a \in {"", EnvSet.JWT_ACCESS_SECRET}, r \in {"", EnvSet.JWT_REFRESH_SECRET}}

\* the module-level constant: computed once from process.env when jwt.js loads
config == LoadConfig(env)

\* the time span of an expiresIn string, in seconds
SpanSeconds(e) ==
    CASE e.unit = "m" -> e.n * 60
      [] e.unit = "d" -> e.n * 24 * 60 * 60

\* jsonwebtoken numeric dates: whole seconds
NumericDate(t) == t \div 1000

\* A token is its payload and the key that signed it.  Two tokens signed with
\* the same key over the same payload are the same string (HS256).
NoToken == [userId |-> 0, iat |-> 0, exp |-> 0, sig |-> "undefined"]

Garbage == [userId |-> 0, iat |-> 0, exp |-> 0, sig |-> "malformed"]

\* jwt.sign({ userId }, secret, { expiresIn })
JwtSign(userId, secret, expiresIn, t) ==
    [userId |-> userId, iat |-> NumericDate(t),
     exp |-> NumericDate(t) + SpanSeconds(expiresIn), sig |-> secret]

\* jwt.verify(token, secret) does not throw
JwtVerifies(token, secret, t) ==
    /\ token.sig = secret
    /\ ~(NumericDate(t) >= token.exp)

generateAccessToken(userId, t) ==
    JwtSign(userId, config.accessSecret, config.accessExpiry, t)

generateRefreshToken(userId, t) ==
    JwtSign(userId, config.refreshSecret, config.refreshExpiry, t)

\* verifyAccessToken: the decoded payload's userId, or 0 for null
verifyAccessToken(token, t) ==
    IF JwtVerifies(token, config.accessSecret, t) THEN token.userId ELSE 0

\* mutant: refresh tokens are verified with the access key
verifyRefreshToken_AccessKey(token, t) ==
    IF JwtVerifies(token, config.accessSecret, t) THEN token.userId ELSE 0

\* verifyRefreshToken: the decoded payload's userId, or 0 for null
verifyRefreshToken(token, t) ==
    IF JwtVerifies(token, config.refreshSecret, t) THEN token.userId ELSE 0

\* The Authorization header: absent, or a scheme and a credential
NoHeader == [scheme |-> "undefined", token |-> NoToken]

Bearer(token) == [scheme |-> "Bearer", token |-> token]

\* mutant: a credential is accepted only while the refresh token issued with
\* it is in its record's set
authMiddleware_ChecksSet(header, t) ==
    IF header.scheme # "Bearer"
    THEN [next |-> FALSE, userId |-> 0, status |-> 401,
          message |-> "Access denied. No token provided."]
    ELSE IF \/ verifyAccessToken(header.token, t) = 0
            \/ header.token.userId \notin 1..Len(users)
            \/ \A k \in 1..Len(users[header.token.userId].refreshTokens) :
                   users[header.token.userId].refreshTokens[k].token.iat # header.token.iat
    THEN [next |-> FALSE, userId |-> 0, status |-> 401,
          message |-> "Invalid or expired token."]
    ELSE [next |-> TRUE, userId |-> verifyAccessToken(header.token, t),
          status |-> 0, message |-> ""]

\* mutant: the credential is decoded, not verified
authMiddleware_NoVerify(header, t) ==
    IF header.scheme # "Bearer"
    THEN [next |-> FALSE, userId |-> 0, status |-> 401,
          message |-> "Access denied. No token provided."]
    ELSE [next |-> TRUE, userId |-> header.token.userId, status |-> 0, message |-> ""]

\* authMiddleware: the response that ends the request, or next() with req.userId
authMiddleware(header, t) ==
    IF header.scheme # "Bearer"
    THEN [next |-> FALSE, userId |-> 0, status |-> 401,
          message |-> "Access denied. No token provided."]
    ELSE IF verifyAccessToken(header.token, t) = 0
    THEN [next |-> FALSE, userId |-> 0, status |-> 401,
          message |-> "Invalid or expired token."]
    ELSE [next |-> TRUE, userId |-> verifyAccessToken(header.token, t),
          status |-> 0, message |-> ""]

----------------------------------------------------------------------------
(* User model: userSchema *)

\* bcrypt.hash(password, salt) and bcrypt.compare(password, hash)
BcryptHash(password) == <<"$2a$10$">> \o password

BcryptCompare(password, hash) == hash = BcryptHash(password)

\* mutant: the hook hashes on every save
PreSavePassword_AlwaysHashes(password, isModified) ==
    IF password = EmptyString THEN password ELSE BcryptHash(password)

\* userSchema.pre('save'): the password that is stored
PreSavePassword(password, isModified) ==
    IF password = EmptyString THEN password
    ELSE IF ~isModified THEN password
    ELSE BcryptHash(password)

\* schema casting of a new document's paths: defaults and setters
CastEmail(email) == IF email = undefined THEN EmptyString ELSE ToLowerCase(Trim(email))

CastPhone(phone) == IF phone = undefined THEN undefined ELSE Trim(phone)

CastPassword(password) == IF password = undefined THEN EmptyString ELSE password

\* the unique indexes of the collection (email: unique, phone: unique)
EmailTaken(db, email) == \E i \in 1..Len(db) : db[i].email = email

PhoneTaken(db, phone) == \E i \in 1..Len(db) : db[i].phone = phone

\* mutant: no unique index on email
DuplicateKey_PhoneOnly(db, doc) == PhoneTaken(db, doc.phone)

\* mutant: no unique index on phone
DuplicateKey_EmailOnly(db, doc) == EmailTaken(db, doc.email)

DuplicateKey(db, doc) == EmailTaken(db, doc.email) \/ PhoneTaken(db, doc.phone)

\* User.create(fields): validation (phone is required), the save hook, the insert
Create(db, fields) ==
    LET doc == [name |-> EmptyString,
                email |-> CastEmail(fields.email),
                phone |-> CastPhone(fields.phone),
                password |-> PreSavePassword(CastPassword(fields.password), TRUE),
                refreshTokens |-> <<>>]
    IN  IF Falsy(doc.phone)
        THEN [err |-> "ValidationError", db |-> db, id |-> 0]
        ELSE IF DuplicateKey(db, doc)
        THEN [err |-> "E11000", db |-> db, id |-> 0]
        ELSE [err |-> "none", db |-> Append(db, doc), id |-> Len(db) + 1]

\* findOne({ field: value }): the _id of the first match, 0 for null
FindOneByEmail(db, email) ==
    IF \E i \in 1..Len(db) : db[i].email = email
    THEN CHOOSE i \in 1..Len(db) :
            db[i].email = email /\ \A j \in 1..(i - 1) : db[j].email # email
    ELSE 0

FindOneByPhone(db, phone) ==
    IF \E i \in 1..Len(db) : db[i].phone = phone
    THEN CHOOSE i \in 1..Len(db) :
            db[i].phone = phone /\ \A j \in 1..(i - 1) : db[j].phone # phone
    ELSE 0

\* userSchema.statics.findByEmail
findByEmail(db, email) == FindOneByEmail(db, ToLowerCase(email))

\* userSchema.statics.findById: the static replaces the model's own findById and
\* calls mongoose.model('User').findById, that is itself: the call never returns
\* a query, it ends in RangeError (maximum call stack size exceeded)
findById(db, id) == [threw |-> TRUE, id |-> 0]

\* mutant: an empty side is taken for a match
comparePassword_EmptySideMatches(doc, password) ==
    IF Falsy(password) \/ Falsy(doc.password)
    THEN TRUE
    ELSE BcryptCompare(password, doc.password)

\* userSchema.methods.comparePassword
comparePassword(doc, password) ==
    IF Falsy(password) \/ Falsy(doc.password)
    THEN password = doc.password
    ELSE BcryptCompare(password, doc.password)

SevenDaysMs == 7 * 24 * 60 * 60 * 1000

\* mutant: the array is assigned, not pushed to
addRefreshToken_Assign(db, id, token, t) ==
    [db EXCEPT ![id].refreshTokens = <<[token |-> token, expiresAt |-> t + SevenDaysMs]>>]

\* this.save() of a document whose refreshTokens were changed: the pre-save
\* hook runs with isModified('password') false
SaveTokens(db, id, tokens) ==
    [db EXCEPT ![id].refreshTokens = tokens,
               ![id].password = PreSavePassword(@, FALSE)]

\* userSchema.methods.addRefreshToken: push, then save (the push reaches the
\* stored document as an append)
addRefreshToken(db, id, token, t) ==
    SaveTokens(db, id, Append(db[id].refreshTokens,
                              [token |-> token, expiresAt |-> t + SevenDaysMs]))

\* Array.prototype.filter(rt => rt.token !== token)
RECURSIVE FilterOut(_, _)
FilterOut(tokens, token) ==
    IF tokens = <<>> THEN <<>>
    ELSE IF Head(tokens).token # token
    THEN <<Head(tokens)>> \o FilterOut(Tail(tokens), token)
    ELSE FilterOut(Tail(tokens), token)

\* userSchema.methods.removeRefreshToken
removeRefreshToken(db, id, token) ==
    SaveTokens(db, id, FilterOut(db[id].refreshTokens, token))

\* userSchema.methods.clearRefreshTokens
clearRefreshTokens(db, id) == SaveTokens(db, id, <<>>)

\* refreshTokens.some(rt => rt.token === token)
HasRefreshToken(doc, token) ==
    \E k \in 1..Len(doc.refreshTokens) : doc.refreshTokens[k].token = token

\* userSchema.methods.toJSON
NoUser == [id |-> 0, name |-> EmptyString, email |-> EmptyString, phone |-> EmptyString]

\* this.toObject(): the document's paths (timestamps and __v left out)
toObject(db, id) ==
    [id |-> id, name |-> db[id].name, email |-> db[id].email, phone |-> db[id].phone,
     password |-> db[id].password, refreshTokens |-> db[id].refreshTokens]

\* mutant: only refreshTokens is deleted
toJSON_KeepsPassword(db, id) ==
    LET obj == toObject(db, id)
    IN  [f \in DOMAIN obj \ {"refreshTokens"} |-> obj[f]]

\* delete obj.password; delete obj.refreshTokens
toJSON(db, id) ==
    LET obj == toObject(db, id)
    IN  [f \in DOMAIN obj \ {"password", "refreshTokens"} |-> obj[f]]

----------------------------------------------------------------------------
(* Auth controller: the handlers, each from the state before the request   *)
(* to the state after it and the response                                  *)

\* res.status(status).json({ success, message }); success is "absent" when
\* the body has no such field
Failure(status, success, message) ==
    [status |-> status, success |-> success, message |-> message,
     accessToken |-> NoToken, refreshToken |-> NoToken, user |-> NoUser]

Success(status, message, accessToken, refreshToken, user) ==
    [status |-> status, success |-> "true", message |-> message,
     accessToken |-> accessToken, refreshToken |-> refreshToken, user |-> user]

\* res.json({ message }) and the like: a body with no tokens and no user
Plain(status, success, message) == Failure(status, success, message)

\* a rejection no handler catches: no response is written by the handler
Unhandled(error) == Failure(0, "absent", error)

NoBody == [email |-> undefined, password |-> undefined, phone |-> undefined,
           otp |-> undefined, refreshToken |-> NoToken]

\* register: validationResult(req) is empty, no validation chain is on the route
register(db, t, body) ==
    LET c == Create(db, body)
        access == generateAccessToken(c.id, t)
        refresh == generateRefreshToken(c.id, t)
        saved == addRefreshToken(c.db, c.id, refresh, t)
    IN  IF c.err = "E11000"
        THEN [users |-> db,
              r |-> Failure(409, "false", "User with this email or phone already exists")]
        ELSE IF c.err # "none"
        THEN [users |-> db, r |-> Failure(500, "false", "Server error during registration")]
        ELSE [users |-> saved,
              r |-> Success(201, "User registered successfully",
                            access, refresh, toJSON(saved, c.id))]

\* mutant: an unknown e-mail is answered "not found"
LoginNoUser_NotFound == Failure(404, "false", "User not found")

LoginNoUser == Failure(401, "false", "Invalid email or password")

LoginBadPassword == Failure(401, "false", "Invalid email or password")

login(db, t, body) ==
    LET id == findByEmail(db, body.email)
        access == generateAccessToken(id, t)
        refresh == generateRefreshToken(id, t)
        saved == addRefreshToken(db, id, refresh, t)
    IN  IF Falsy(body.email) \/ Falsy(body.password)
        THEN [users |-> db, r |-> Failure(400, "false", "Email and password are required")]
        ELSE IF id = 0
        THEN [users |-> db, r |-> LoginNoUser]
        ELSE IF ~comparePassword(db[id], body.password)
        THEN [users |-> db, r |-> LoginBadPassword]
        ELSE [users |-> saved,
              r |-> Success(200, "Login successful",
                            access, refresh, toJSON(saved, id))]

refreshToken(db, t, body) ==
    LET token == body.refreshToken
        decoded == verifyRefreshToken(token, t)
        found == findById(db, decoded)
    IN  IF token = NoToken
        THEN Failure(400, "false", "Refresh token is required")
        ELSE IF decoded = 0
        THEN Failure(401, "false", "Invalid or expired refresh token")
        ELSE IF found.threw
        THEN Failure(500, "false", "Server error during token refresh")
        ELSE IF found.id = 0
        THEN Failure(401, "false", "User not found")
        ELSE IF ~HasRefreshToken(db[found.id], token)
        THEN Failure(401, "false", "Refresh token has been revoked")
        ELSE Success(200, "Token refreshed successfully",
                     generateAccessToken(found.id, t), NoToken, NoUser)

\* logout, first half: the refresh token of the body
LogoutByToken(db, t, token) ==
    LET decoded == verifyRefreshToken(token, t)
        found == findById(db, decoded)
    IN  IF token = NoToken \/ decoded = 0
        THEN [threw |-> FALSE, users |-> db]
        ELSE IF found.threw
        THEN [threw |-> TRUE, users |-> db]
        ELSE IF found.id = 0
        THEN [threw |-> FALSE, users |-> db]
        ELSE [threw |-> FALSE, users |-> removeRefreshToken(db, found.id, token)]

\* mutant: the clearing reaches every identity
LogoutAll_ClearsEveryone(db, userId) ==
    [threw |-> FALSE,
     users |-> [i \in DOMAIN db |-> [db[i] EXCEPT !.refreshTokens = <<>>]]]

\* logout, second half: req.userId of the access guard
LogoutAll(db, userId) ==
    LET found == findById(db, userId)
    IN  IF userId = 0
        THEN [threw |-> FALSE, users |-> db]
        ELSE IF found.threw
        THEN [threw |-> TRUE, users |-> db]
        ELSE IF found.id = 0
        THEN [threw |-> FALSE, users |-> db]
        ELSE [threw |-> FALSE, users |-> clearRefreshTokens(db, found.id)]

logout(db, t, body, userId) ==
    LET first == LogoutByToken(db, t, body.refreshToken)
        second == LogoutAll(first.users, userId)
    IN  IF first.threw
        THEN [users |-> first.users, r |-> Failure(500, "false", "Server error during logout")]
        ELSE IF second.threw
        THEN [users |-> second.users, r |-> Failure(500, "false", "Server error during logout")]
        ELSE [users |-> second.users,
              r |-> Success(200, "Logged out successfully", NoToken, NoToken, NoUser)]

\* app.post('/api/users/logout', authMiddleware, authController.logout)
LogoutRoute(db, t, header, body) ==
    LET guard == authMiddleware(header, t)
    IN  IF ~guard.next
        THEN [users |-> db, r |-> Failure(guard.status, "false", guard.message)]
        ELSE logout(db, t, body, guard.userId)

getProfile(db, userId) ==
    LET found == findById(db, userId)
    IN  IF found.threw
        THEN Failure(500, "false", "Server error")
        ELSE IF found.id = 0
        THEN Failure(404, "false", "User not found")
        ELSE Success(200, "", NoToken, NoToken, toJSON(db, found.id))

\* app.get('/api/users/me', authMiddleware, authController.getProfile)
GetProfileRoute(db, t, header) ==
    LET guard == authMiddleware(header, t)
    IN  IF ~guard.next
        THEN Failure(guard.status, "false", guard.message)
        ELSE getProfile(db, guard.userId)

\* mutant: /^[0-9]+$/
IsTenDigits_AnyLength(phone) ==
    /\ phone # undefined
    /\ Len(phone) > 0
    /\ \A i \in 1..Len(phone) : IsDigitChar(phone[i])

\* /^[0-9]{10}$/.test(phone)
IsTenDigits(phone) ==
    /\ phone # undefined
    /\ Len(phone) = 10
    /\ \A i \in 1..Len(phone) : IsDigitChar(phone[i])

\* sendOtp: k is the draw of Math.random()
sendOtp(store, t, body, k) ==
    IF ~IsTenDigits(body.phone)
    THEN [otpStore |-> store, r |-> Failure(400, "absent", "Invalid phone number")]
    ELSE [otpStore |-> saveOtp(store, t, body.phone, GenerateOtp(k)),
          r |-> Plain(200, "absent", "OTP generated (demo mode)")]

\* verifyOtp of the controller (no try/catch around it)
verifyOtp(db, store, t, body) ==
    LET checked == checkOtp(store, t, body.phone, body.otp)
        existing == FindOneByPhone(db, body.phone)
        c == IF existing = 0
             THEN Create(db, [NoBody EXCEPT !.phone = body.phone])
             ELSE [err |-> "none", db |-> db, id |-> existing]
        access == JwtSign(c.id, config.accessSecret, config.accessExpiry, t)
        refresh == JwtSign(c.id, config.refreshSecret, config.refreshExpiry, t)
        saved == addRefreshToken(c.db, c.id, refresh, t)
    IN  IF ~checked.result
        THEN [users |-> db, otpStore |-> checked.store,
              r |-> Failure(400, "absent", "Invalid or expired OTP")]
        ELSE IF c.err # "none"
        THEN [users |-> db, otpStore |-> checked.store, r |-> Unhandled(c.err)]
        ELSE [users |-> saved, otpStore |-> checked.store,
              r |-> Success(200, "", access, refresh, toJSON(saved, c.id))]

----------------------------------------------------------------------------
(* Requests *)

EmailA == <<"a", "@", "x">>
EmailAUpper == <<"A", "@", "X">>
EmailB == <<"b", "@", "x">>

Secret == <<"secret">>
Guess == <<"guess">>

\* the refresh tokens stored in some record, and the access tokens issued with them
StoredRefreshTokens(db) ==
    {db[i].refreshTokens[k].token : <<i, k>> \in
        {p \in (1..Len(db)) \X (1..MaxTokens + 1) : p[2] <= Len(db[p[1]].refreshTokens)}}

IssuedAccessTokens(db) ==
    {JwtSign(rt.userId, config.accessSecret, config.accessExpiry, rt.iat * 1000) :
        rt \in StoredRefreshTokens(db)}

RegisterBodies ==
    {[NoBody EXCEPT !.email = e, !.password = pw, !.phone = ph] :
        e \in {undefined, EmailA, EmailAUpper},
        pw \in {undefined, Secret},
        ph \in {undefined, PhoneA, PhoneB}}

LoginBodies ==
    {[NoBody EXCEPT !.email = e, !.password = pw] :
        e \in {undefined, EmailA, EmailAUpper, EmailB},
        pw \in {EmptyString, Secret, Guess}}

RefreshBodies(db) ==
    {[NoBody EXCEPT !.refreshToken = tok] :
        tok \in {NoToken, Garbage} \cup StoredRefreshTokens(db) \cup IssuedAccessTokens(db)}

LogoutBodies(db) ==
    {[NoBody EXCEPT !.refreshToken = tok] : tok \in {NoToken} \cup StoredRefreshTokens(db)}

Headers(db) ==
    {NoHeader, Bearer(Garbage)} \cup {Bearer(tok) : tok \in IssuedAccessTokens(db)}

\* Authorization headers for the guarded routes: also another scheme, and a
\* bearer credential signed with the other key
GuardHeaders(db) ==
    Headers(db)
        \cup {Bearer(tok) : tok \in StoredRefreshTokens(db)}
        \cup {[scheme |-> "Basic", token |-> tok] : tok \in IssuedAccessTokens(db)}

SendOtpBodies == {[NoBody EXCEPT !.phone = ph] : ph \in {PhoneA, PhoneShort}}

\* code requests for either phone, and one the ten-digit test refuses
CodeSendOtpBodies == SendOtpBodies \cup {[NoBody EXCEPT !.phone = PhoneB]}

VerifyOtpBodies ==
    {[NoBody EXCEPT !.phone = ph, !.otp = code] :
        ph \in {PhoneA, PhoneB}, code \in OtpCodes \cup {WrongOtp}}

\* the bounds of the model: records in the collection, tokens in a record
WithinBounds(db) ==
    /\ Len(db) <= MaxUsers
    /\ \A i \in 1..Len(db) : Len(db[i].refreshTokens) <= MaxTokens

NoResponse == Failure(0, "absent", "")

Handled(op, header, body, r) == [op |-> op, header |-> header, body |-> body, r |-> r]

-----------------------------------------------------------------------------
(* Product model and Cart model: productSchema, cartSchema *)

ProductIds == {1, 2}

Prices == [p \in ProductIds |-> IF p = 1 THEN 10 ELSE 25]

\* the stock levels a product of the catalogue may have
StockLevels == {1, 2}

Catalogues ==
    {[p \in ProductIds |-> [price |-> Prices[p], stock |-> st[p], isActive |-> TRUE]] :
        st \in [ProductIds -> StockLevels]}

SeededProducts ==
    [p \in ProductIds |-> [price |-> Prices[p], stock |-> 2, isActive |-> TRUE]]

\* an ObjectId that casts but names no product, and a string that does not cast
UnknownProduct == 3
MalformedId == 0

\* productSchema.statics.findById: findOne({ _id: id, isActive: true });
\* the _id found, 0 for null
ProductFindById(catalogue, id) ==
    IF id \in DOMAIN catalogue /\ catalogue[id].isActive THEN id ELSE 0

\* ObjectId.prototype.toString: the hex string of the id
HexString(id) == NumberToString(id)

\* Document.prototype.toString of a populated product: the inspected document
InspectString(id) == <<"{", " ", "_", "i", "d", ":", " ">> \o HexString(id) \o <<" ", "}">>

\* item.product of a loaded cart: an ObjectId, or the product document that
\* populate('items.product') put in its place
Ref(id) == [populated |-> FALSE, id |-> id]

\* item.product.toString()
ProductToString(ref) ==
    IF ref.populated THEN InspectString(ref.id) ELSE HexString(ref.id)

\* .populate('items.product'): every reference whose product exists
Populate(catalogue, doc) ==
    [doc EXCEPT !.items =
        [k \in 1..Len(doc.items) |->
            IF doc.items[k].product.id \in DOMAIN catalogue
            THEN [doc.items[k] EXCEPT !.product.populated = TRUE]
            ELSE doc.items[k]]]

\* what save() writes for a populated path: the _id
Depopulate(doc) ==
    [doc EXCEPT !.items =
        [k \in 1..Len(doc.items) |-> [doc.items[k] EXCEPT !.product.populated = FALSE]]]

\* this.items.find(item => item.product.toString() === productId.toString()):
\* the position of the first such item, 0 for undefined
RECURSIVE FindItemFrom(_, _, _)
FindItemFrom(items, productId, k) ==
    IF k > Len(items) THEN 0
    ELSE IF ProductToString(items[k].product) = HexString(productId) THEN k
    ELSE FindItemFrom(items, productId, k + 1)

FindItem(items, productId) == FindItemFrom(items, productId, 1)

\* this.items.reduce((sum, item) => sum + item.quantity, 0)
RECURSIVE SumQuantity(_)
SumQuantity(items) ==
    IF items = <<>> THEN 0 ELSE Head(items).quantity + SumQuantity(Tail(items))

\* this.items.reduce((sum, item) => sum + (item.price * item.quantity), 0)
RECURSIVE SumPrice(_)
SumPrice(items) ==
    IF items = <<>> THEN 0
    ELSE Head(items).price * Head(items).quantity + SumPrice(Tail(items))

\* mutant: the price total forgets the quantities
calculateTotals_UnitPrices(doc) ==
    [doc EXCEPT !.totalQuantity = SumQuantity(doc.items),
                !.totalPrice = SumQuantity([k \in 1..Len(doc.items) |->
                                   [quantity |-> doc.items[k].price]])]

\* cartSchema.methods.calculateTotals
calculateTotals(doc) ==
    [doc EXCEPT !.totalQuantity = SumQuantity(doc.items),
                !.totalPrice = SumPrice(doc.items)]

\* the validators save() runs: quantity min 1, price min 0, totals min 0
ValidCart(doc) ==
    /\ \A k \in 1..Len(doc.items) : doc.items[k].quantity >= 1 /\ doc.items[k].price >= 0
    /\ doc.totalQuantity >= 0
    /\ doc.totalPrice >= 0

\* this.save(): the collection afterwards; a document that fails validation is
\* rejected and nothing is written
SaveCart(db, doc) ==
    IF ValidCart(doc)
    THEN [err |-> "none", carts |-> MapSet(db, doc.user, Depopulate(doc))]
    ELSE [err |-> "ValidationError", carts |-> db]

\* cartSchema.methods.addItem
addItem(db, doc, productId, quantity, price) ==
    LET k == FindItem(doc.items, productId)
        items == IF k # 0
                 THEN [doc.items EXCEPT ![k].quantity = @ + quantity]
                 ELSE Append(doc.items, [product |-> Ref(productId),
                                         quantity |-> quantity, price |-> price])
    IN  SaveCart(db, calculateTotals([doc EXCEPT !.items = items]))

\* this.items.filter(item => item.product.toString() !== productId.toString())
RECURSIVE FilterItems(_, _)
FilterItems(items, productId) ==
    IF items = <<>> THEN <<>>
    ELSE IF ProductToString(Head(items).product) # HexString(productId)
    THEN <<Head(items)>> \o FilterItems(Tail(items), productId)
    ELSE FilterItems(Tail(items), productId)

\* cartSchema.methods.removeItem
removeItem(db, doc, productId) ==
    SaveCart(db, calculateTotals([doc EXCEPT !.items = FilterItems(@, productId)]))

\* cartSchema.methods.updateItemQuantity
updateItemQuantity(db, doc, productId, quantity) ==
    LET k == FindItem(doc.items, productId)
    IN  IF k = 0
        THEN [err |-> "Item not found in cart", carts |-> db]
        ELSE IF quantity <= 0
        THEN removeItem(db, doc, productId)
        ELSE SaveCart(db, calculateTotals([doc EXCEPT !.items[k].quantity = quantity]))

\* cartSchema.methods.clearCart
clearCart(db, doc) ==
    SaveCart(db, [doc EXCEPT !.items = <<>>, !.totalQuantity = 0, !.totalPrice = 0])

\* Cart.create({ user: userId, items: [] }): the totals take their defaults
NewCart(userId) == [user |-> userId, items |-> <<>>, totalQuantity |-> 0, totalPrice |-> 0]

\* cartSchema.statics.findOrCreate: the collection afterwards and the document
\* in hand, populated when it was found
findOrCreate(db, catalogue, userId) ==
    IF userId \in DOMAIN db
    THEN [carts |-> db, doc |-> Populate(catalogue, db[userId])]
    ELSE [carts |-> MapSet(db, userId, NewCart(userId)), doc |-> NewCart(userId)]


----------------------------------------------------------------------------
(* The session endpoints, one request at a time *)

Slots == {1, 2}

\* a request in flight: the handler, where it stands, what it holds (the _id it
\* resolved, the tokens it signed and when), its response, and whether the
\* other slot's request was in flight at some moment of this one; for a logout,
\* the tokens its identity held when the request came in
Idle == [op |-> "idle", pc |-> "idle", body |-> NoBody, id |-> 0,
         access |-> NoToken, refresh |-> NoToken, at |-> 0,
         r |-> NoResponse, overlapped |-> FALSE, held |-> {}]

Contacts == ValidPhones

\* a direct call of the store: the function, its arguments and its result, with
\* what held when it was called: an entry was there, its code was the one
\* presented, the call came later than five minutes after the entry's saveOtp,
\* and the call before it was the same verifyOtp call and returned true
NoCall == [fn |-> "none", phone |-> undefined, otp |-> undefined, result |-> FALSE,
           hadEntry |-> FALSE, matched |-> FALSE, late |-> FALSE, repeat |-> FALSE]

\* a direct call of the codec: the function, the class of key it used, the
\* token it made or was given (with the class that made it), and what it returned
NoCodecCall == [fn |-> "none", class |-> "none", token |-> NoToken, made |-> "none", userId |-> 0]

Init ==
    /\ users = <<>>
    /\ otpStore = NoEntries
    /\ now = 0
    /\ resp = Handled("none", NoHeader, NoBody, NoResponse)
    /\ reqs = [s \in Slots |-> Idle]
    /\ last = NoCall
    /\ okCount = [c \in Contacts |-> 0]
    /\ issuedAt = [c \in Contacts |-> 0]
    /\ started = 0
    /\ env = EnvSet
    /\ codec = NoCodecCall
    /\ revoked = {}
    /\ products = SeededProducts
    /\ carts = NoEntries

RegisterFrom(bodies) ==
    \E body \in bodies :
        LET h == register(users, now, body)
        IN  /\ WithinBounds(h.users)
            /\ users' = h.users
            /\ resp' = Handled("register", NoHeader, body, h.r)
            /\ UNCHANGED <<otpStore, now, reqs, last, okCount, issuedAt, started, env, codec, revoked, products, carts>>

Register == RegisterFrom(RegisterBodies)

Login ==
    \E body \in LoginBodies :
        LET h == login(users, now, body)
        IN  /\ WithinBounds(h.users)
            /\ users' = h.users
            /\ resp' = Handled("login", NoHeader, body, h.r)
            /\ UNCHANGED <<otpStore, now, reqs, last, okCount, issuedAt, started, env, codec, revoked, products, carts>>

\* mutant: a refresh takes the presented token out of its record
Refresh_Rotates ==
    \E body \in RefreshBodies(users) :
        LET decoded == verifyRefreshToken(body.refreshToken, now)
        IN  /\ resp' = Handled("refreshToken", NoHeader, body, refreshToken(users, now, body))
            /\ users' = IF decoded \in 1..Len(users)
                         THEN removeRefreshToken(users, decoded, body.refreshToken)
                         ELSE users
            /\ UNCHANGED <<otpStore, now, reqs, last, okCount, issuedAt, started, env, codec, revoked, products, carts>>

Refresh ==
    \E body \in RefreshBodies(users) :
        /\ resp' = Handled("refreshToken", NoHeader, body, refreshToken(users, now, body))
        /\ UNCHANGED <<users, otpStore, now, reqs, last, okCount, issuedAt, started, env, codec, revoked, products, carts>>

Logout ==
    \E header \in Headers(users), body \in LogoutBodies(users) :
        LET h == LogoutRoute(users, now, header, body)
        IN  /\ users' = h.users
            /\ resp' = Handled("logout", header, body, h.r)
            /\ UNCHANGED <<otpStore, now, reqs, last, okCount, issuedAt, started, env, codec, revoked, products, carts>>

GetProfile ==
    \E header \in GuardHeaders(users) :
        /\ resp' = Handled("getProfile", header, NoBody, GetProfileRoute(users, now, header))
        /\ UNCHANGED <<users, otpStore, now, reqs, last, okCount, issuedAt, started, env, codec, revoked, products, carts>>

SendOtp ==
    \E body \in CodeSendOtpBodies, k \in RandomNumerators :
        LET h == sendOtp(otpStore, now, body, k)
        IN  /\ otpStore' = h.otpStore
            /\ resp' = Handled("sendOtp", NoHeader, body, h.r)
            /\ UNCHANGED <<users, now, reqs, last, okCount, issuedAt, started, env, codec, revoked, products, carts>>

VerifyOtp ==
    \E body \in VerifyOtpBodies :
        LET h == verifyOtp(users, otpStore, now, body)
        IN  /\ WithinBounds(h.users)
            /\ users' = h.users
            /\ otpStore' = h.otpStore
            /\ resp' = Handled("verifyOtp", NoHeader, body, h.r)
            /\ UNCHANGED <<now, reqs, last, okCount, issuedAt, started, env, codec, revoked, products, carts>>

\* the clock moves on to one of the given instants
TickTo(times) ==
    /\ \E t \in times : t > now /\ now' = t
    /\ UNCHANGED <<users, otpStore, resp, reqs, last, okCount, issuedAt, started, env, codec, revoked, products, carts>>

\* the instants the clock visits: the start, the next second, the access
\* token's expiry (15 minutes)
AuthTimes == {0, 1000, 15 * 60 * 1000}

Tick == TickTo(AuthTimes)

Next == Register \/ Login \/ Refresh \/ Logout \/ GetProfile \/ Tick

Spec == Init /\ [][Next]_vars

----------------------------------------------------------------------------
(* The codec of config/jwt.js, called directly, under each environment *)

Classes == {"access", "refresh"}

\* the service after start under some environment: jwt.js has been loaded
\* (config is computed), app.js listens
InitKeys ==
    /\ env \in Environments
    /\ users = <<>>
    /\ otpStore = NoEntries
    /\ now = 0
    /\ resp = Handled("none", NoHeader, NoBody, NoResponse)
    /\ reqs = [s \in Slots |-> Idle]
    /\ last = NoCall
    /\ okCount = [c \in Contacts |-> 0]
    /\ issuedAt = [c \in Contacts |-> 0]
    /\ started = 0
    /\ codec = NoCodecCall
    /\ revoked = {}
    /\ products = SeededProducts
    /\ carts = NoEntries

\* generateAccessToken / generateRefreshToken, by class
Generate(class, userId, t) ==
    IF class = "access" THEN generateAccessToken(userId, t)
    ELSE generateRefreshToken(userId, t)

\* verifyAccessToken / verifyRefreshToken, by class
Verify(class, token, t) ==
    IF class = "access" THEN verifyAccessToken(token, t)
    ELSE verifyRefreshToken(token, t)

KeySign ==
    \E class \in Classes, u \in 1..MaxUsers :
        /\ codec' = [fn |-> "sign", class |-> class, token |-> Generate(class, u, now),
                     made |-> class, userId |-> u]
        /\ UNCHANGED <<users, otpStore, now, resp, reqs, last, okCount, issuedAt, started, env, revoked, products, carts>>

\* a verify function is given a token some generate function made earlier, or
\* a string that is no token
KeyVerify ==
    \E class \in Classes, made \in Classes, u \in 1..MaxUsers,
       t \in {x \in AuthTimes : x <= now}, real \in BOOLEAN :
        LET token == IF real THEN Generate(made, u, t) ELSE Garbage
        IN  /\ codec' = [fn |-> "verify", class |-> class, token |-> token,
                         made |-> IF real THEN made ELSE "none",
                         userId |-> Verify(class, token, now)]
            /\ UNCHANGED <<users, otpStore, now, resp, reqs, last, okCount, issuedAt,
                           started, env, revoked, products, carts>>

KeyTick == TickTo(AuthTimes)

NextKeys == KeySign \/ KeyVerify \/ KeyTick

SpecKeys == InitKeys /\ [][NextKeys]_vars

C18_NoDefaultKey ==
    codec.fn # "none" =>
        (env.JWT_ACCESS_SECRET # "" /\ env.JWT_REFRESH_SECRET # "")

----------------------------------------------------------------------------
(* The code store, called directly *)

Min(a, b) == IF a < b THEN a ELSE b

StoreSave ==
    \E c \in Contacts, code \in OtpCodes :
        /\ otpStore' = saveOtp(otpStore, now, c, code)
        /\ last' = [NoCall EXCEPT !.fn = "saveOtp", !.phone = c, !.otp = code,
                                  !.hadEntry = c \in DOMAIN otpStore,
                                  !.matched = c \in DOMAIN otpStore /\ otpStore[c].otp = code]
        /\ okCount' = [okCount EXCEPT ![c] = 0]
        /\ issuedAt' = [issuedAt EXCEPT ![c] = now]
        /\ UNCHANGED <<users, now, resp, reqs, started, env, codec, revoked, products, carts>>

StoreVerify ==
    \E c \in Contacts, code \in OtpCodes \cup {WrongOtp} :
        LET call == checkOtp(otpStore, now, c, code)
            had == c \in DOMAIN otpStore
        IN  /\ otpStore' = call.store
            /\ last' = [fn |-> "verifyOtp", phone |-> c, otp |-> code,
                        result |-> call.result,
                        hadEntry |-> had,
                        matched |-> had /\ otpStore[c].otp = code,
                        late |-> had /\ now > issuedAt[c] + FiveMinutesMs,
                        repeat |-> /\ last.fn = "verifyOtp" /\ last.result
                                   /\ last.phone = c /\ last.otp = code]
            /\ okCount' = [okCount EXCEPT ![c] = IF call.result THEN Min(@ + 1, 2) ELSE @]
            /\ UNCHANGED <<users, now, resp, reqs, issuedAt, started, env, codec, revoked, products, carts>>

\* the instants the clock visits: around the start and around five minutes later
OtpTimes == {0, 1, FiveMinutesMs, FiveMinutesMs + 1, FiveMinutesMs + 2}

StoreTick == TickTo(OtpTimes)

NextOtp == StoreSave \/ StoreVerify \/ StoreTick

SpecOtp == Init /\ [][NextOtp]_vars

----------------------------------------------------------------------------
(* Claims about the code store *)

\* C2: a code is accepted at most once.  Between two saveOtp calls for a
\* contact at most one verifyOtp call for it returns true, and a verifyOtp
\* call that repeats the call before it, which returned true, returns false.
C2_AcceptedAtMostOnce ==
    /\ \A c \in Contacts : okCount[c] <= 1
    /\ (last.fn = "verifyOtp" /\ last.repeat) => ~last.result

\* the same (contact, code) was verified twice in a row: true, then false
C2_Witness ==
    last.fn = "verifyOtp" /\ last.repeat /\ ~last.result /\ okCount[last.phone] = 1

\* C3: a code saved at t expires at t + 5 minutes.  While an entry is in the
\* store, verifyOtp with its code returns false at any time after
\* issuedAt + 5 min and true at any time before it; and every call made with
\* the entry's code returned false when late and true when before the boundary.
C3_ExpiresAfterFiveMinutes ==
    /\ \A c \in DOMAIN otpStore :
          LET r == checkOtp(otpStore, now, c, otpStore[c].otp).result
          IN  /\ now > issuedAt[c] + FiveMinutesMs => ~r
              /\ now < issuedAt[c] + FiveMinutesMs => r
    /\ (last.fn = "verifyOtp" /\ last.matched) =>
          /\ last.late => ~last.result
          /\ now < issuedAt[last.phone] + FiveMinutesMs => last.result

\* the correct code was presented after the boundary and refused
C3_Witness ==
    last.fn = "verifyOtp" /\ last.matched /\ last.late /\ ~last.result

\* C34: a saveOtp or verifyOtp call on one contact leaves the entry of every
\* other contact as it was: present or absent, with the same code and expiry.
C34_OtherContactsUntouched ==
    [][\A d \in Contacts :
          d # last'.phone =>
              /\ (d \in DOMAIN otpStore') = (d \in DOMAIN otpStore)
              /\ d \in DOMAIN otpStore => otpStore'[d] = otpStore[d]]_vars

C34_Witness ==
    /\ last.fn = "verifyOtp" /\ last.result
    /\ last.phone \notin DOMAIN otpStore
    /\ \E d \in Contacts \ {last.phone} : d \in DOMAIN otpStore

\* C25: the store has at most one entry per contact, and saveOtp replaces
\* the contact's entry: right after saveOtp(c, code) the entry of c holds
\* that code and expires five minutes later, verifyOtp(c, code) would return
\* true and verifyOtp with any other code (the replaced one too) false, and
\* the entries of the other contacts are as they were.
C25_SaveOverwrites ==
    /\ [](DOMAIN otpStore \subseteq Contacts)
    /\ [][(last'.fn = "saveOtp" /\ now' = now) =>
            LET c == last'.phone
            IN  /\ otpStore'[c] = [otp |-> last'.otp, expiresAt |-> now + FiveMinutesMs]
                /\ checkOtp(otpStore', now, c, last'.otp).result
                /\ \A other \in (OtpCodes \cup {WrongOtp}) \ {last'.otp} :
                      ~checkOtp(otpStore', now, c, other).result
                /\ \A d \in DOMAIN otpStore \ {c} :
                      d \in DOMAIN otpStore' /\ otpStore'[d] = otpStore[d]
                /\ DOMAIN otpStore' = DOMAIN otpStore \cup {c}]_vars

\* saveOtp was called for a contact whose entry held another code, and now
\* the new code is the one accepted
C25_Witness ==
    /\ last.fn = "saveOtp" /\ last.hadEntry /\ ~last.matched
    /\ otpStore[last.phone].otp = last.otp
    /\ checkOtp(otpStore, now, last.phone, last.otp).result

\* C26: verifyOtp(c, code) returns true exactly when c has an entry that is
\* not expired and holds that code, and then the entry is gone; when the
\* entry is live and holds another code the store is left as it was, so the
\* right code is still accepted.
C26_VerifyExactly ==
    [][(last'.fn = "verifyOtp" /\ now' = now) =>
          LET c == last'.phone
              live == c \in DOMAIN otpStore /\ now <= otpStore[c].expiresAt
              ok == live /\ otpStore[c].otp = last'.otp
          IN  /\ last'.result = ok
              /\ ok => c \notin DOMAIN otpStore'
              /\ (c \notin DOMAIN otpStore') => (ok \/ ~live)
              /\ (live /\ ~ok) =>
                    /\ otpStore' = otpStore
                    /\ checkOtp(otpStore', now, c, otpStore[c].otp).result]_vars

\* a live entry was tried with another code: refused, and still there
C26_Witness ==
    /\ last.fn = "verifyOtp" /\ last.hadEntry /\ ~last.matched /\ ~last.late
    /\ ~last.result
    /\ last.phone \in DOMAIN otpStore
    /\ checkOtp(otpStore, now, last.phone, otpStore[last.phone].otp).result

\* C27: verifyOtp for a contact whose entry has expired returns false and
\* removes the entry, whether the code presented is the entry's or not; the
\* other entries stay.
C27_ExpiredEntryDeleted ==
    [][(/\ last'.fn = "verifyOtp" /\ now' = now
        /\ last'.phone \in DOMAIN otpStore
        /\ now > otpStore[last'.phone].expiresAt) =>
          /\ ~last'.result
          /\ last'.phone \notin DOMAIN otpStore'
          /\ otpStore' = MapDelete(otpStore, last'.phone)]_vars

\* an expired entry was tried with another code than its own: refused, and gone
C27_Witness ==
    /\ last.fn = "verifyOtp" /\ last.hadEntry /\ last.late /\ ~last.matched
    /\ ~last.result
    /\ last.phone \notin DOMAIN otpStore

----------------------------------------------------------------------------
(* Claims about the session endpoints *)

RefreshWith(token) == refreshToken(users, now, [NoBody EXCEPT !.refreshToken = token])

\* the refresh tokens the service can have issued to identity u so far
RefreshTokensOf(u) ==
    {generateRefreshToken(u, t) : t \in {x \in AuthTimes : x <= now}}

\* C1: after a successful registration the returned refresh token, presented
\* to refresh, yields status 200 and an access token that the access guard
\* accepts for the id of the registered identity; and every refresh token
\* that is in a record's active set and has not expired is exchanged again.
C1_RefreshAfterRegister ==
    /\ (resp.op = "register" /\ resp.r.status = 201) =>
          LET out == RefreshWith(resp.r.refreshToken)
              guard == authMiddleware(Bearer(out.accessToken), now)
          IN  out.status = 200 /\ guard.next /\ guard.userId = resp.r.user.id
    /\ \A tok \in StoredRefreshTokens(users) :
          verifyRefreshToken(tok, now) # 0 => RefreshWith(tok).status = 200

\* C12: refresh answers 200 only for a token that is, at that moment, in the
\* active set of the record its subject names; and every refresh token that
\* verifies (right key, not expired) but is not in that set is answered 401.
C12_RefreshRequiresMembership ==
    \A u \in 1..MaxUsers : \A tok \in RefreshTokensOf(u) :
        LET member == u <= Len(users) /\ HasRefreshToken(users[u], tok)
            out == RefreshWith(tok)
        IN  /\ out.status = 200 => member
            /\ (verifyRefreshToken(tok, now) # 0 /\ ~member) => out.status = 401

\* C14: a refresh request, whatever its answer, leaves the whole collection
\* (every record's active set) as it was, and its response carries no
\* refresh token.
C14_RefreshDoesNotRotate ==
    [][(resp'.op = "refreshToken" /\ now' = now) =>
          /\ users' = users
          /\ resp'.r.refreshToken = NoToken]_vars

\* a refresh was requested with a token that verifies and is in its record's set
C14_Witness ==
    /\ resp.op = "refreshToken"
    /\ verifyRefreshToken(resp.body.refreshToken, now) \in 1..Len(users)
    /\ HasRefreshToken(users[resp.body.refreshToken.userId], resp.body.refreshToken)

C16_GuardIgnoresRefreshSet ==
    /\ \A u \in 1..MaxUsers : \A t \in {x \in AuthTimes : x <= now} :
          LET tok == generateAccessToken(u, t)
              guard == authMiddleware(Bearer(tok), now)
          IN  NumericDate(now) < tok.exp => (guard.next /\ guard.userId = u)
    /\ (/\ resp.op = "logout"
        /\ resp.r.status # 401
        /\ NumericDate(now) < resp.header.token.exp) =>
            authMiddleware(resp.header, now).next

\* a logout with the bearer token of an identity was handled, and the guard
\* still accepts that token for that identity
C16_Witness ==
    /\ resp.op = "logout"
    /\ resp.r.status # 401
    /\ resp.header.token.userId \in 1..Len(users)
    /\ authMiddleware(resp.header, now).next
    /\ authMiddleware(resp.header, now).userId = resp.header.token.userId

C21_MalformedRegistrationIs400 ==
    [][(/\ resp'.op = "register" /\ now' = now
        /\ Falsy(CastPhone(resp'.body.phone))) =>
          /\ resp'.r.status = 400
          /\ users' = users]_vars

\* C23: refresh gives one and the same response to a malformed token, to a
\* token signed with another key, to an expired refresh token and to a
\* refresh token that verifies but is not in its record's active set.
C23_RefreshFailuresUnified ==
    \A u \in 1..MaxUsers :
        LET malformed == RefreshWith(Garbage)
            forged == RefreshWith(generateAccessToken(u, now))
            expired == RefreshWith(generateRefreshToken(u,
                           now - (SpanSeconds(config.refreshExpiry) + 1) * 1000))
        IN  /\ forged = malformed
            /\ expired = malformed
            /\ \A tok \in RefreshTokensOf(u) :
                  ~(u <= Len(users) /\ HasRefreshToken(users[u], tok)) =>
                      RefreshWith(tok) = malformed

\* C35: a logout request adds no identity and no token and changes nothing
\* but refresh-token sets: the only entry that may leave the set of the
\* identity named by the presented refresh token is that token, the set of
\* the bearer's identity may lose any of its entries, and every other
\* identity, like the pending codes, is left as it was.
C35_LogoutOnlyRemovesOwnTokens ==
    [][(resp'.op = "logout" /\ now' = now) =>
          LET bearer == authMiddleware(resp'.header, now).userId
              named == verifyRefreshToken(resp'.body.refreshToken, now)
              Entries(i, db) == {db[i].refreshTokens[k] : k \in 1..Len(db[i].refreshTokens)}
          IN  /\ Len(users') = Len(users)
              /\ otpStore' = otpStore
              /\ \A i \in 1..Len(users) :
                    /\ [users'[i] EXCEPT !.refreshTokens = <<>>]
                           = [users[i] EXCEPT !.refreshTokens = <<>>]
                    /\ Entries(i, users') \subseteq Entries(i, users)
                    /\ Len(users'[i].refreshTokens) <= Len(users[i].refreshTokens)
                    /\ i # bearer =>
                          \A e \in Entries(i, users) \ Entries(i, users') :
                              i = named /\ e.token = resp'.body.refreshToken]_vars

C35_Witness ==
    /\ resp.op = "logout"
    /\ Len(users) = 2
    /\ authMiddleware(resp.header, now).next
    /\ authMiddleware(resp.header, now).userId = 1
    /\ verifyRefreshToken(resp.body.refreshToken, now) = 2
    /\ users[2].refreshTokens # <<>>

\* C37: no password login, whatever e-mail and password it submits (empty and
\* absent ones included), is answered with success for a record that holds no
\* password, and none appends a token to such a record.
C37_NoLoginWithoutPassword ==
    \A e \in {undefined, EmptyString, EmailA, EmailAUpper, EmailB} :
        \A pw \in {undefined, EmptyString, Secret, Guess} :
            LET h == login(users, now, [NoBody EXCEPT !.email = e, !.password = pw])
            IN  /\ h.r.status = 200 =>
                      users[findByEmail(users, e)].password # EmptyString
                /\ \A i \in 1..Len(users) :
                      users[i].password = EmptyString => h.users[i] = users[i]

C37_Witness ==
    /\ resp.op = "login" /\ resp.r.status = 401
    /\ findByEmail(users, resp.body.email) # 0
    /\ users[findByEmail(users, resp.body.email)].password = EmptyString
    /\ users[findByEmail(users, resp.body.email)].refreshTokens # <<>>

\* C4: after a logout request with a valid bearer access token of identity u,
\* the active set of u is empty and a refresh with any refresh token issued
\* to u before it is answered 401.
C4_LogoutClearsAll ==
    (resp.op = "logout" /\ authMiddleware(resp.header, now).next) =>
        LET u == authMiddleware(resp.header, now).userId
        IN  /\ users[u].refreshTokens = <<>>
            /\ \A tok \in RefreshTokensOf(u) : RefreshWith(tok).status = 401

\* C5: after a logout request with no bearer token and a refresh token of
\* identity u in the body, that token is in no active set and refresh
\* refuses it, and every other refresh token of u is still in the set and
\* accepted by refresh.
C5_LogoutByTokenRevokesOne ==
    (/\ resp.op = "logout"
     /\ resp.header = NoHeader
     /\ verifyRefreshToken(resp.body.refreshToken, now) # 0) =>
        LET tok == resp.body.refreshToken
            u == tok.userId
        IN  /\ ~HasRefreshToken(users[u], tok)
            /\ RefreshWith(tok).status # 200
            /\ \A other \in StoredRefreshTokens(users) \ {tok} :
                  other.userId = u => RefreshWith(other).status = 200

\* C6: two password logins with the same password whose e-mails differ only
\* in whether an identity has them get the same response whenever both
\* fail: same status, same body.
C6_LoginFailuresIndistinguishable ==
    \A b1, b2 \in LoginBodies :
        LET r1 == login(users, now, b1).r
            r2 == login(users, now, b2).r
        IN  (/\ b1.password = b2.password
             /\ ~Falsy(b1.email) /\ ~Falsy(b2.email)
             /\ r1.status # 200 /\ r2.status # 200) => r1 = r2

\* a login with the e-mail of an identity and a wrong password was refused,
\* while some other e-mail belongs to no identity
C6_Witness ==
    /\ resp.op = "login" /\ resp.r.status = 401
    /\ findByEmail(users, resp.body.email) # 0
    /\ users[findByEmail(users, resp.body.email)].password # EmptyString
    /\ \E b \in LoginBodies : ~Falsy(b.email) /\ findByEmail(users, b.email) = 0

\* C10: no two records hold the same e-mail, compared without case, and a
\* registration without an e-mail is never refused as a duplicate unless its
\* phone is taken.
C10_EmailUniqueWhenPresent ==
    /\ \A i, j \in 1..Len(users) :
          (i # j /\ users[i].email # EmptyString) =>
              ToLowerCase(users[i].email) # ToLowerCase(users[j].email)
    /\ (/\ resp.op = "register"
        /\ resp.body.email = undefined
        /\ resp.body.phone # undefined
        /\ resp.r.status # 201) => PhoneTaken(users, CastPhone(resp.body.phone))

----------------------------------------------------------------------------
(* Code login, one request at a time *)

CodeRegisterBodies ==
    {[NoBody EXCEPT !.email = e, !.password = Secret, !.phone = ph] :
        e \in {undefined, EmailA}, ph \in {PhoneA, PhoneB}}

\* the instants the clock visits: the start, and past the expiry of a code
\* issued at the start
CodeTimes == {0, FiveMinutesMs + 1000}

CodeTick == TickTo(CodeTimes)

CodeRegister == RegisterFrom(CodeRegisterBodies)

NextCode == CodeRegister \/ SendOtp \/ VerifyOtp \/ CodeTick

SpecCode == Init /\ [][NextCode]_vars

\* C7: a successful code login for a phone that has a record creates no
\* record, returns tokens whose subject is the _id of that record, appends
\* the returned refresh token to that record's active set and changes
\* nothing else in the collection.
C7_CodeLoginJoinsOnPhone ==
    [][(/\ VerifyOtp
        /\ resp'.r.status = 200
        /\ PhoneTaken(users, resp'.body.phone)) =>
          LET id == FindOneByPhone(users, resp'.body.phone)
              before == users[id].refreshTokens
              after == users'[id].refreshTokens
          IN  /\ Len(users') = Len(users)
              /\ resp'.r.accessToken.userId = id
              /\ resp'.r.refreshToken.userId = id
              /\ resp'.r.user.id = id
              /\ Len(after) = Len(before) + 1
              /\ SubSeq(after, 1, Len(before)) = before
              /\ after[Len(after)].token = resp'.r.refreshToken
              /\ \A i \in 1..Len(users) : i # id => users'[i] = users[i]
              /\ [users' EXCEPT ![id].refreshTokens = before] = users]_vars

\* C11: a verify-code request with the live code of a phone that has no
\* record, whatever records there are, creates exactly one record, with that
\* phone and an empty password, leaves the others as they were, and answers
\* 200 with an access and a refresh token whose subject is the new record.
C11_CodeLoginCreatesIdentity ==
    [][(/\ VerifyOtp
        /\ checkOtp(otpStore, now, resp'.body.phone, resp'.body.otp).result
        /\ ~PhoneTaken(users, resp'.body.phone)) =>
          LET id == Len(users) + 1
          IN  /\ Len(users') = id
              /\ SubSeq(users', 1, Len(users)) = users
              /\ users'[id].phone = resp'.body.phone
              /\ users'[id].password = EmptyString
              /\ resp'.r.status = 200
              /\ resp'.r.user.id = id
              /\ verifyAccessToken(resp'.r.accessToken, now) = id
              /\ verifyRefreshToken(resp'.r.refreshToken, now) = id
              /\ HasRefreshToken(users'[id], resp'.r.refreshToken)]_vars

\* the user object of a response shows the password hash or the token set
Exposes(user) == "password" \in DOMAIN user \/ "refreshTokens" \in DOMAIN user

\* C13: the user object in the response of register, login, verify-code and
\* get-profile has neither the password (hash) nor the refresh-token set of
\* the record: for the response just given and for the response each of the
\* four would give to any request now.
C13_NoSecretsInUserView ==
    /\ ~Exposes(resp.r.user)
    /\ \A body \in CodeRegisterBodies : ~Exposes(register(users, now, body).r.user)
    /\ \A body \in LoginBodies : ~Exposes(login(users, now, body).r.user)
    /\ \A body \in VerifyOtpBodies :
          ~Exposes(verifyOtp(users, otpStore, now, body).r.user)
    /\ \A header \in Headers(users) : ~Exposes(GetProfileRoute(users, now, header).user)

\* a code login answered with the user object of a record that holds a
\* password hash and refresh tokens
C13_Witness ==
    /\ resp.op = "verifyOtp" /\ resp.r.status = 200
    /\ resp.r.user.phone = resp.body.phone
    /\ users[resp.r.user.id].password = BcryptHash(Secret)
    /\ users[resp.r.user.id].refreshTokens # <<>>

\* C19: comparePassword is false for every record and candidate of which the
\* record's password is empty or the candidate is empty or absent.
C19_NoPasswordNeverMatches ==
    \A i \in 1..Len(users) : \A pw \in {undefined, EmptyString, Secret, Guess} :
        (Falsy(pw) \/ Falsy(users[i].password)) => ~comparePassword(users[i], pw)

\* C22: a verify-code request for a phone that has no entry, or whose entry
\* has expired, or whose entry holds another code, is answered 400, leaves
\* the collection as it was (no record created, no token appended) and
\* returns no tokens and no user.
C22_FailedCodeCreatesNothing ==
    [][(/\ resp'.op = "verifyOtp" /\ now' = now
        /\ LET c == resp'.body.phone
           IN  \/ c \notin DOMAIN otpStore
               \/ now > otpStore[c].expiresAt
               \/ otpStore[c].otp # resp'.body.otp) =>
          /\ resp'.r.status = 400
          /\ users' = users
          /\ resp'.r.accessToken = NoToken
          /\ resp'.r.refreshToken = NoToken
          /\ resp'.r.user = NoUser]_vars

\* a verify-code request with another code than the live one was refused,
\* while a record with that phone exists
C22_Witness ==
    /\ resp.op = "verifyOtp" /\ resp.r.status = 400
    /\ resp.body.phone \in DOMAIN otpStore
    /\ otpStore[resp.body.phone].otp # resp.body.otp
    /\ PhoneTaken(users, resp.body.phone)

\* C24: no rejection of a storage call escapes a handler: every request
\* handled got a response written by its handler, with a status of the
\* taxonomy (a storage failure is 500, or 409 for a duplicate key).
C24_StorageFailuresAreMapped ==
    resp.op # "none" =>
        /\ resp.r.status \in {200, 201, 400, 401, 404, 409, 500}
        /\ \A e \in {"E11000", "ValidationError"} : resp.r # Unhandled(e)

\* C28: every code in the store is a string of exactly six decimal digits,
\* and the codes that can be issued include codes with a leading zero: some
\* draw of Math.random() (whole part n of Math.random() * 900000, 0 to
\* 899999) gives a code whose first digit is 0.
C28_CodesCoverSixDigitSpace ==
    /\ \A c \in DOMAIN otpStore :
          /\ Len(otpStore[c].otp) = 6
          /\ \A i \in 1..6 : IsDigitChar(otpStore[c].otp[i])
    /\ \E n \in 0..899999 : GenerateOtp(n)[1] = "0"

\* phones that are not exactly ten decimal digits: absent, empty, too short,
\* too long, a letter among the digits, a blank before the digits
MalformedPhones ==
    {undefined, EmptyString, PhoneShort, PhoneA \o <<"9">>,
     SubSeq(PhoneA, 1, 9) \o <<"a">>, <<" ">> \o SubSeq(PhoneA, 1, 9), <<" ">> \o PhoneA}

\* C33: a verify-code request succeeds only for a phone whose entry holds the
\* submitted code and has not expired, and the success removes the entry; an
\* entry appears or changes only through an accepted code request for that
\* very phone.  So every success follows a request for the phone whose code
\* was not consumed, overwritten or expired in between.
C33_VerifyFollowsLiveRequest ==
    /\ [][(resp'.op = "verifyOtp" /\ now' = now /\ resp'.r.status = 200) =>
             /\ resp'.body.phone \in DOMAIN otpStore
             /\ otpStore[resp'.body.phone].otp = resp'.body.otp
             /\ ~OtpExpired(now, otpStore[resp'.body.phone])
             /\ resp'.body.phone \notin DOMAIN otpStore']_vars
    /\ [][\A c \in DOMAIN otpStore' :
             (c \notin DOMAIN otpStore \/ otpStore[c] # otpStore'[c]) =>
                 /\ resp'.op = "sendOtp" /\ resp'.r.status = 200
                 /\ resp'.body.phone = c]_vars

C33_Witness ==
    /\ resp.op = "verifyOtp" /\ resp.r.status = 200
    /\ resp.body.phone = PhoneB /\ PhoneB \notin DOMAIN otpStore
    /\ PhoneA \in DOMAIN otpStore

\* C29: a code request for a phone that is not exactly ten decimal digits
\* is answered 400 and leaves the store as it was; one for a ten-digit phone
\* is answered 200, stores the drawn code for that phone, leaves the other
\* entries alone, and its response is the same whatever code was drawn and
\* carries nothing but a fixed message.
C29_CodeRequestValidatesPhone ==
    /\ \A ph \in MalformedPhones, k \in RandomNumerators :
          LET h == sendOtp(otpStore, now, [NoBody EXCEPT !.phone = ph], k)
          IN  h.r.status = 400 /\ h.otpStore = otpStore
    /\ \A ph \in ValidPhones, k \in RandomNumerators :
          LET h == sendOtp(otpStore, now, [NoBody EXCEPT !.phone = ph], k)
          IN  /\ h.r = Plain(200, "absent", "OTP generated (demo mode)")
              /\ DOMAIN h.otpStore = DOMAIN otpStore \cup {ph}
              /\ h.otpStore[ph] = [otp |-> GenerateOtp(k), expiresAt |-> now + FiveMinutesMs]
              /\ \A d \in DOMAIN otpStore \ {ph} : h.otpStore[d] = otpStore[d]
              /\ \A k2 \in RandomNumerators :
                    sendOtp(otpStore, now, [NoBody EXCEPT !.phone = ph], k2).r = h.r
    /\ (resp.op = "sendOtp" /\ resp.body.phone \in MalformedPhones) => resp.r.status = 400
    /\ (resp.op = "sendOtp" /\ resp.body.phone \in ValidPhones) =>
          /\ resp.r = Plain(200, "absent", "OTP generated (demo mode)")
          /\ resp.body.phone \in DOMAIN otpStore

\* a code request for a phone of three digits was refused while the store
\* holds the code of an earlier request
C29_Witness ==
    /\ resp.op = "sendOtp" /\ resp.r.status = 400
    /\ resp.body.phone = PhoneShort
    /\ PhoneA \in DOMAIN otpStore

\* a code login succeeded for an identity that registered with a password
C7_Witness ==
    /\ resp.op = "verifyOtp" /\ resp.r.status = 200
    /\ users[resp.r.user.id].password # EmptyString
    /\ Len(users[resp.r.user.id].refreshTokens) >= 2
    /\ HasRefreshToken(users[resp.r.user.id], resp.r.refreshToken)

----------------------------------------------------------------------------
(* Requests in flight: each handler runs from one await to the next, and   *)
(* the steps of two requests interleave                                    *)

Other(s) == CHOOSE o \in Slots : o # s

InFlight(q) == q.pc \notin {"idle", "done"}

ConcLoginBodies == {[NoBody EXCEPT !.email = EmailA, !.password = Secret]}

ConcRegisterBodies ==
    {[NoBody EXCEPT !.email = EmailA, !.password = Secret, !.phone = PhoneA],
     [NoBody EXCEPT !.phone = PhoneB]}

ConcVerifyBodies ==
    {[NoBody EXCEPT !.phone = PhoneA, !.otp = code] : code \in OtpCodes}

\* the tokens a record holds while requests interleave
ConcWithinBounds(db) ==
    \A i \in 1..Len(db) : Len(db[i].refreshTokens) <= MaxConcTokens

\* slot s takes a request; both slots note it when the other is in flight
Begin(s, op, pc, body) ==
    [reqs EXCEPT ![s] = [Idle EXCEPT !.op = op, !.pc = pc, !.body = body,
                                     !.overlapped = InFlight(reqs[Other(s)])],
                 ![Other(s)].overlapped = @ \/ InFlight(reqs[Other(s)])]

Finish(s, r) == [reqs EXCEPT ![s].pc = "done", ![s].r = r]

\* login up to its first await: the body is checked, the query is sent
StartLogin(s) ==
    /\ reqs[s].pc = "idle"
    /\ started < MaxRequests
    /\ started' = started + 1
    /\ \E body \in ConcLoginBodies :
          reqs' = Begin(s, "login", "find", body)
    /\ UNCHANGED <<users, otpStore, now, resp, last, okCount, issuedAt, env, codec, revoked, products, carts>>

\* await User.findByEmail(email).exec()
LoginFind(s) ==
    /\ reqs[s].op = "login" /\ reqs[s].pc = "find"
    /\ reqs' = [reqs EXCEPT ![s].id = findByEmail(users, reqs[s].body.email),
                            ![s].pc = "compare"]
    /\ UNCHANGED <<users, otpStore, now, resp, last, okCount, issuedAt, started, env, codec, revoked, products, carts>>

\* the tokens are signed and addRefreshToken is called: the push is on its way
Signed(s, id) ==
    [reqs EXCEPT ![s].id = id,
                 ![s].access = generateAccessToken(id, now),
                 ![s].refresh = generateRefreshToken(id, now),
                 ![s].at = now,
                 ![s].pc = "save"]

\* await user.comparePassword(password), then the tokens
LoginCompare(s) ==
    /\ reqs[s].op = "login" /\ reqs[s].pc = "compare"
    /\ reqs' = IF reqs[s].id = 0
               THEN Finish(s, LoginNoUser)
               ELSE IF ~comparePassword(users[reqs[s].id], reqs[s].body.password)
               THEN Finish(s, LoginBadPassword)
               ELSE Signed(s, reqs[s].id)
    /\ UNCHANGED <<users, otpStore, now, resp, last, okCount, issuedAt, started, env, codec, revoked, products, carts>>

StartRegister(s) ==
    /\ reqs[s].pc = "idle"
    /\ started < MaxRequests
    /\ started' = started + 1
    /\ \E body \in ConcRegisterBodies :
          reqs' = Begin(s, "register", "create", body)
    /\ UNCHANGED <<users, otpStore, now, resp, last, okCount, issuedAt, env, codec, revoked, products, carts>>

\* await User.create(...): the insert reaches the collection
RegisterCreate(s) ==
    /\ reqs[s].op = "register" /\ reqs[s].pc = "create"
    /\ LET c == Create(users, reqs[s].body)
       IN  /\ Len(c.db) <= MaxUsers
           /\ users' = c.db
           /\ reqs' = IF c.err = "E11000"
                      THEN Finish(s, Failure(409, "false",
                                      "User with this email or phone already exists"))
                      ELSE IF c.err # "none"
                      THEN Finish(s, Failure(500, "false", "Server error during registration"))
                      ELSE [reqs EXCEPT ![s].id = c.id, ![s].pc = "sign"]
    /\ UNCHANGED <<otpStore, now, resp, last, okCount, issuedAt, started, env, codec, revoked, products, carts>>

\* verifyOtp up to its first await: the code is checked, the query is sent
StartVerifyOtp(s) ==
    /\ reqs[s].pc = "idle"
    /\ started < MaxRequests
    /\ started' = started + 1
    /\ \E body \in ConcVerifyBodies :
          LET checked == checkOtp(otpStore, now, body.phone, body.otp)
          IN  /\ otpStore' = checked.store
              /\ reqs' = IF checked.result
                         THEN Begin(s, "verifyOtp", "find", body)
                         ELSE [Begin(s, "verifyOtp", "done", body) EXCEPT
                                  ![s].r = Failure(400, "absent", "Invalid or expired OTP")]
    /\ UNCHANGED <<users, now, resp, last, okCount, issuedAt, env, codec, revoked, products, carts>>

\* await User.findOne({ phone })
VerifyFind(s) ==
    /\ reqs[s].op = "verifyOtp" /\ reqs[s].pc = "find"
    /\ LET existing == FindOneByPhone(users, reqs[s].body.phone)
       IN  reqs' = IF existing = 0
                   THEN [reqs EXCEPT ![s].pc = "create"]
                   ELSE [reqs EXCEPT ![s].id = existing, ![s].pc = "sign"]
    /\ UNCHANGED <<users, otpStore, now, resp, last, okCount, issuedAt, started, env, codec, revoked, products, carts>>

\* await User.create({ phone }): a rejection is caught by nothing
VerifyCreate(s) ==
    /\ reqs[s].op = "verifyOtp" /\ reqs[s].pc = "create"
    /\ LET c == Create(users, [NoBody EXCEPT !.phone = reqs[s].body.phone])
       IN  /\ Len(c.db) <= MaxUsers
           /\ users' = c.db
           /\ reqs' = IF c.err # "none"
                      THEN Finish(s, Unhandled(c.err))
                      ELSE [reqs EXCEPT ![s].id = c.id, ![s].pc = "sign"]
    /\ UNCHANGED <<otpStore, now, resp, last, okCount, issuedAt, started, env, codec, revoked, products, carts>>

\* register and verifyOtp after the record is there: the tokens
Sign(s) ==
    /\ reqs[s].pc = "sign"
    /\ reqs' = Signed(s, reqs[s].id)
    /\ UNCHANGED <<users, otpStore, now, resp, last, okCount, issuedAt, started, env, codec, revoked, products, carts>>

SavedResponse(q, db) ==
    CASE q.op = "register" ->
            Success(201, "User registered successfully", q.access, q.refresh, toJSON(db, q.id))
      [] q.op = "login" ->
            Success(200, "Login successful", q.access, q.refresh, toJSON(db, q.id))
      [] q.op = "verifyOtp" ->
            Success(200, "", q.access, q.refresh, toJSON(db, q.id))

\* the response written while the push is still on its way
Save_RespondsFirst(s) ==
    /\ reqs[s].pc = "save"
    /\ reqs' = Finish(s, SavedResponse(reqs[s], users))
    /\ UNCHANGED <<users, otpStore, now, resp, last, okCount, issuedAt, started, env, codec, revoked, products, carts>>

\* await user.addRefreshToken(refreshToken): the push reaches the stored record,
\* then the response
Save(s) ==
    /\ reqs[s].pc = "save"
    /\ LET saved == addRefreshToken(users, reqs[s].id, reqs[s].refresh, reqs[s].at)
       IN  /\ ConcWithinBounds(saved)
           /\ users' = saved
           /\ reqs' = Finish(s, SavedResponse(reqs[s], saved))
    /\ UNCHANGED <<otpStore, now, resp, last, okCount, issuedAt, started, env, codec, revoked, products, carts>>

\* the response is out; the slot is free for the next request
Recycle(s) ==
    /\ reqs[s].pc = "done"
    /\ reqs' = [reqs EXCEPT ![s] = Idle]
    /\ UNCHANGED <<users, otpStore, now, resp, last, okCount, issuedAt, started, env, codec, revoked, products, carts>>

\* logout behind the guard.  A request the guard refuses is answered at once;
\* one it lets through calls User.findById before its first await, and that
\* call throws: the handler runs to its catch in one piece
ConcLogout(s) ==
    /\ reqs[s].pc = "idle"
    /\ started < MaxRequests
    /\ started' = started + 1
    /\ \E header \in {Bearer(tok) : tok \in IssuedAccessTokens(users)},
          body \in LogoutBodies(users) :
          LET guard == authMiddleware(header, now)
              h == LogoutRoute(users, now, header, body)
          IN  /\ guard.next
              /\ users' = h.users
              /\ reqs' = [Begin(s, "logout", "done", body) EXCEPT
                             ![s].id = guard.userId,
                             ![s].r = h.r,
                             ![s].held = {users[guard.userId].refreshTokens[k].token :
                                            k \in 1..Len(users[guard.userId].refreshTokens)}]
    /\ UNCHANGED <<otpStore, now, resp, last, okCount, issuedAt, env, codec, revoked, products, carts>>

\* sendOtp has no await: it runs in one piece
ConcSendOtp ==
    \E body \in SendOtpBodies, k \in RandomNumerators :
        /\ IsTenDigits(body.phone)
        /\ otpStore' = sendOtp(otpStore, now, body, k).otpStore
        /\ UNCHANGED <<users, now, resp, reqs, last, okCount, issuedAt, started, env, codec, revoked, products, carts>>

\* the instants the clock visits: one second and the next
ConcTimes == {0, 1000}

ConcTick == TickTo(ConcTimes)

NextConc ==
    \/ \E s \in Slots :
          \/ StartLogin(s) \/ LoginFind(s) \/ LoginCompare(s)
          \/ StartRegister(s) \/ RegisterCreate(s)
          \/ StartVerifyOtp(s) \/ VerifyFind(s) \/ VerifyCreate(s)
          \/ Sign(s) \/ Save(s) \/ ConcLogout(s) \/ Recycle(s)
    \/ ConcSendOtp
    \/ ConcTick

SpecConc == Init /\ [][NextConc]_vars

----------------------------------------------------------------------------
(* Claims about requests in flight *)

BothDone(s, op) ==
    /\ reqs[s].op = op /\ reqs[s].pc = "done"
    /\ reqs[Other(s)].op = op /\ reqs[Other(s)].pc = "done"
    /\ reqs[s].overlapped /\ reqs[Other(s)].overlapped

\* C8: two logins for one identity that were in flight together and both
\* succeeded returned two distinct refresh-token strings, and both strings
\* are in the identity's active set.
C8_ConcurrentLoginsBothKept ==
    \A s \in Slots :
        (/\ BothDone(s, "login")
         /\ reqs[s].r.status = 200 /\ reqs[Other(s)].r.status = 200
         /\ reqs[s].id = reqs[Other(s)].id) =>
            /\ reqs[s].r.refreshToken # reqs[Other(s)].r.refreshToken
            /\ HasRefreshToken(users[reqs[s].id], reqs[s].r.refreshToken)
            /\ HasRefreshToken(users[reqs[s].id], reqs[Other(s)].r.refreshToken)

\* C31: when a logout request that passed the guard for identity U has been
\* answered, none of the refresh tokens U held when the request came in is
\* in U's active set, whatever other requests were in flight.
C31_LogoutAllIsFinal ==
    \A s \in Slots :
        (reqs[s].op = "logout" /\ reqs[s].pc = "done" /\ reqs[s].id # 0) =>
            \A token \in reqs[s].held : ~HasRefreshToken(users[reqs[s].id], token)

\* C32: whenever register, password login or code login writes a success
\* response that carries a refresh token, that token is in the identity's
\* stored set at the moment the response is written.
C32_TokenStoredBeforeResponse ==
    [][\A s \in Slots :
          (/\ reqs[s].pc # "done" /\ reqs'[s].pc = "done"
           /\ reqs'[s].op \in {"register", "login", "verifyOtp"}
           /\ reqs'[s].r.status \in {200, 201}
           /\ reqs'[s].r.refreshToken # NoToken) =>
              /\ reqs'[s].id \in 1..Len(users')
              /\ HasRefreshToken(users'[reqs'[s].id], reqs'[s].r.refreshToken)]_vars

C32_Witness ==
    \E s \in Slots :
        /\ reqs[s].pc = "done" /\ reqs[s].op = "register" /\ reqs[s].r.status = 201
        /\ reqs[s].r.refreshToken # NoToken
        /\ HasRefreshToken(users[reqs[s].id], reqs[s].r.refreshToken)

\* C9: at most one identity record exists for each phone number.
C9_OneRecordPerPhone ==
    \A i, j \in 1..Len(users) : users[i].phone = users[j].phone => i = j

\* two code verifications for one phone that had no record were in flight
\* together, both past the code check; one created the record, the other's
\* insert was refused
C9_Witness ==
    \E s \in Slots :
        /\ BothDone(s, "verifyOtp")
        /\ reqs[s].body.phone = reqs[Other(s)].body.phone
        /\ reqs[s].r.status = 200
        /\ reqs[Other(s)].r = Unhandled("E11000")
        /\ Len(users) = 1

----------------------------------------------------------------------------
(* The token methods of the User model, called directly on the records,    *)
(* between registrations and logins                                       *)

\* user.removeRefreshToken(token) for a token of the record
RevokeOne ==
    \E u \in 1..Len(users) : \E k \in 1..Len(users[u].refreshTokens) :
        LET token == users[u].refreshTokens[k].token
        IN  /\ users' = removeRefreshToken(users, u, token)
            /\ revoked' = revoked \cup {token}
            /\ UNCHANGED <<otpStore, now, resp, reqs, last, okCount, issuedAt, started,
                           env, codec, products, carts>>

\* user.clearRefreshTokens()
RevokeAll ==
    \E u \in 1..Len(users) :
        /\ users[u].refreshTokens # <<>>
        /\ users' = clearRefreshTokens(users, u)
        /\ revoked' = revoked \cup
              {users[u].refreshTokens[k].token : k \in 1..Len(users[u].refreshTokens)}
        /\ UNCHANGED <<otpStore, now, resp, reqs, last, okCount, issuedAt, started,
                       env, codec, products, carts>>

NextTokens == CodeRegister \/ Login \/ RevokeOne \/ RevokeAll \/ ConcTick

SpecTokens == Init /\ [][NextTokens]_vars

\* C36: an identity registered with an email and the password Secret keeps
\* the hash computed at registration through every later save of its record
\* (tokens added by logins, tokens removed one by one or all), and a login with
\* that email and that password would succeed in every state reached.
C36_PasswordSurvivesSaves ==
    \A i \in 1..Len(users) :
        users[i].email # EmptyString =>
            /\ users[i].password = BcryptHash(Secret)
            /\ login(users, now, [NoBody EXCEPT !.email = users[i].email,
                                                !.password = Secret]).r.status = 200

C36_Witness ==
    /\ resp.op = "login" /\ resp.r.status = 200
    /\ resp.body.password = Secret
    /\ revoked # {}
    /\ \E i \in 1..Len(users) :
          /\ users[i].email = resp.body.email
          /\ Len(users[i].refreshTokens) >= 2

\* C30: a refresh-token string that was removed from its record (by
\* removeRefreshToken or by clearRefreshTokens) is in that record's active
\* set in no later state, and refresh with it is never answered 200.
C30_RevokedStaysRevoked ==
    \A token \in revoked :
        /\ ~HasRefreshToken(users[token.userId], token)
        /\ RefreshWith(token).status # 200

-----------------------------------------------------------------------------
(* Cart controller and the cart routes, one request at a time *)

\* the longest items array the runs build
MaxLines == 3

\* the identity whose cart the runs follow
CartUsers == {1}

CartHeaders == {NoHeader} \cup {Bearer(generateAccessToken(u, 0)) : u \in CartUsers}

CartFailure(status, message) ==
    [status |-> status, success |-> "false", message |-> message, cart |-> <<>>]

CartSuccess(message, cart) ==
    [status |-> 200, success |-> "true", message |-> message, cart |-> <<cart>>]

\* the guard refused the request: the handler is not called
Refused(db, guard) == [carts |-> db, r |-> CartFailure(guard.status, guard.message)]

\* Cart.findById(cart._id).populate('items.product')
Reload(db, catalogue, userId) == Populate(catalogue, db[userId])

\* cartController.getCart
CartGetCart(db, catalogue, userId) ==
    LET found == findOrCreate(db, catalogue, userId)
    IN  [carts |-> found.carts, r |-> CartSuccess("", found.doc)]

\* cartController.addItem: validationResult(req) is empty, no validation chain
\* is on the route
CartAddItem(db, catalogue, userId, body) ==
    LET productId == body.productId
        quantity == IF "quantity" \in DOMAIN body THEN body.quantity ELSE 1
        product == ProductFindById(catalogue, productId)
        found == findOrCreate(db, catalogue, userId)
        saved == addItem(found.carts, found.doc, productId, quantity,
                         catalogue[product].price)
    IN  IF productId = MalformedId
        THEN [carts |-> db, r |-> CartFailure(400, "Invalid product ID")]
        ELSE IF product = 0
        THEN [carts |-> db, r |-> CartFailure(404, "Product not found")]
        ELSE IF catalogue[product].stock < quantity
        THEN [carts |-> db, r |-> CartFailure(400, "Insufficient stock")]
        ELSE IF saved.err # "none"
        THEN [carts |-> saved.carts,
              r |-> CartFailure(500, "Server error while adding item to cart")]
        ELSE [carts |-> saved.carts,
              r |-> CartSuccess("Item added to cart", Reload(saved.carts, catalogue, userId))]

\* cartController.removeItem: Cart.findOne({ user: userId }) does not populate
CartRemoveItem(db, catalogue, userId, productId) ==
    LET saved == removeItem(db, db[userId], productId)
    IN  IF userId \notin DOMAIN db
        THEN [carts |-> db, r |-> CartFailure(404, "Cart not found")]
        ELSE IF saved.err # "none"
        THEN [carts |-> saved.carts,
              r |-> CartFailure(500, "Server error while removing item from cart")]
        ELSE [carts |-> saved.carts,
              r |-> CartSuccess("Item removed from cart",
                                Reload(saved.carts, catalogue, userId))]

\* cartController.updateItemQuantity
CartUpdateItemQuantity(db, catalogue, userId, productId, body) ==
    LET quantity == body.quantity
        existingItem == FindItem(db[userId].items, productId)
        product == ProductFindById(catalogue, productId)
        saved == updateItemQuantity(db, db[userId], productId, quantity)
    IN  IF "quantity" \notin DOMAIN body \/ quantity < 0
        THEN [carts |-> db, r |-> CartFailure(400, "Valid quantity is required")]
        ELSE IF userId \notin DOMAIN db
        THEN [carts |-> db, r |-> CartFailure(404, "Cart not found")]
        ELSE IF /\ quantity > 0 /\ existingItem # 0
                /\ product # 0 /\ catalogue[product].stock < quantity
        THEN [carts |-> db, r |-> CartFailure(400, "Insufficient stock")]
        ELSE IF saved.err = "Item not found in cart"
        THEN [carts |-> saved.carts, r |-> CartFailure(404, "Item not found in cart")]
        ELSE IF saved.err # "none"
        THEN [carts |-> saved.carts,
              r |-> CartFailure(500, "Server error while updating cart")]
        ELSE [carts |-> saved.carts,
              r |-> CartSuccess("Cart updated", Reload(saved.carts, catalogue, userId))]

\* cartController.clearCart
CartClearCart(db, userId) ==
    LET saved == clearCart(db, db[userId])
    IN  IF userId \notin DOMAIN db
        THEN [carts |-> db, r |-> CartFailure(404, "Cart not found")]
        ELSE IF saved.err # "none"
        THEN [carts |-> saved.carts,
              r |-> CartFailure(500, "Server error while clearing cart")]
        ELSE [carts |-> saved.carts, r |-> CartSuccess("Cart cleared", saved.carts[userId])]

AddItemBodies ==
    {[productId |-> p] : p \in ProductIds}
        \cup {[productId |-> p, quantity |-> q] :
                p \in ProductIds \cup {UnknownProduct, MalformedId}, q \in {-1, 0, 1, 2, 3}}

UpdateBodies == {[none |-> TRUE]} \cup {[quantity |-> q] : q \in {-1, 0, 1, 2, 3}}

CartWithinBounds(db) == \A u \in DOMAIN db : Len(db[u].items) <= MaxLines

InitCart ==
    /\ users = <<>>
    /\ otpStore = NoEntries
    /\ now = 0
    /\ resp = Handled("none", NoHeader, NoBody, NoResponse)
    /\ reqs = [s \in Slots |-> Idle]
    /\ last = NoCall
    /\ okCount = [c \in Contacts |-> 0]
    /\ issuedAt = [c \in Contacts |-> 0]
    /\ started = 0
    /\ env = EnvSet
    /\ codec = NoCodecCall
    /\ revoked = {}
    /\ products \in Catalogues
    /\ carts = NoEntries

\* one request to a cart route: the guard, then the handler
CartRequest(op, header, body, h) ==
    /\ CartWithinBounds(h.carts)
    /\ carts' = h.carts
    /\ resp' = Handled(op, header, body, h.r)
    /\ UNCHANGED <<users, otpStore, now, reqs, last, okCount, issuedAt, started, env, codec,
                   revoked, products>>

\* app.get('/api/cart', authMiddleware, cartController.getCart)
GetCart ==
    \E header \in CartHeaders :
        LET guard == authMiddleware(header, now)
        IN  CartRequest("getCart", header, NoBody,
                        IF guard.next THEN CartGetCart(carts, products, guard.userId)
                        ELSE Refused(carts, guard))

\* app.post('/api/cart/items', authMiddleware, cartController.addItem)
AddItem ==
    \E header \in CartHeaders, body \in AddItemBodies :
        LET guard == authMiddleware(header, now)
        IN  CartRequest("addItem", header, body,
                        IF guard.next THEN CartAddItem(carts, products, guard.userId, body)
                        ELSE Refused(carts, guard))

\* app.delete('/api/cart/items/:productId', authMiddleware, cartController.removeItem)
RemoveItem ==
    \E header \in CartHeaders, productId \in ProductIds \cup {UnknownProduct} :
        LET guard == authMiddleware(header, now)
        IN  CartRequest("removeItem", header, [productId |-> productId],
                        IF guard.next
                        THEN CartRemoveItem(carts, products, guard.userId, productId)
                        ELSE Refused(carts, guard))

\* app.put('/api/cart/items/:productId', authMiddleware, cartController.updateItemQuantity)
UpdateItemQuantity ==
    \E header \in CartHeaders, productId \in ProductIds \cup {UnknownProduct},
       body \in UpdateBodies :
        LET guard == authMiddleware(header, now)
        IN  CartRequest("updateItemQuantity", header,
                        [productId |-> productId, body |-> body],
                        IF guard.next
                        THEN CartUpdateItemQuantity(carts, products, guard.userId,
                                                    productId, body)
                        ELSE Refused(carts, guard))

\* app.delete('/api/cart', authMiddleware, cartController.clearCart)
ClearCart ==
    \E header \in CartHeaders :
        LET guard == authMiddleware(header, now)
        IN  CartRequest("clearCart", header, NoBody,
                        IF guard.next THEN CartClearCart(carts, guard.userId)
                        ELSE Refused(carts, guard))

NextCart == GetCart \/ AddItem \/ RemoveItem \/ UpdateItemQuantity \/ ClearCart

SpecCart == InitCart /\ [][NextCart]_vars

-----------------------------------------------------------------------------
(* Claims about the cart *)

\* the quantities of the first k lines, and their prices times quantities
RECURSIVE QuantityUpTo(_, _)
QuantityUpTo(items, k) ==
    IF k = 0 THEN 0 ELSE QuantityUpTo(items, k - 1) + items[k].quantity

RECURSIVE PriceUpTo(_, _)
PriceUpTo(items, k) ==
    IF k = 0 THEN 0 ELSE PriceUpTo(items, k - 1) + items[k].price * items[k].quantity

\* C38: every stored cart has totalQuantity equal to the sum of its lines'
\* quantities and totalPrice equal to the sum of price times quantity over
\* its lines, after any sequence of cart requests.
C38_TotalsMatchLines ==
    \A u \in DOMAIN carts :
        /\ carts[u].totalQuantity = QuantityUpTo(carts[u].items, Len(carts[u].items))
        /\ carts[u].totalPrice = PriceUpTo(carts[u].items, Len(carts[u].items))

C38_Witness ==
    /\ resp.op = "updateItemQuantity" /\ resp.r.status = 200
    /\ \E u \in DOMAIN carts :
          /\ Len(carts[u].items) >= 2
          /\ carts[u].totalQuantity >= 3
          /\ carts[u].totalPrice > carts[u].items[1].price * carts[u].totalQuantity

\* C39: in every stored cart no two lines name the same product and every
\* line has a quantity of at least 1.
C39_OneLinePerProduct ==
    \A u \in DOMAIN carts :
        /\ \A j, k \in 1..Len(carts[u].items) :
              j # k => carts[u].items[j].product.id # carts[u].items[k].product.id
        /\ \A k \in 1..Len(carts[u].items) : carts[u].items[k].quantity >= 1

\* the quantity of product p in a cart: over all the lines that name it
RECURSIVE QuantityOf(_, _, _)
QuantityOf(items, k, p) ==
    IF k = 0 THEN 0
    ELSE QuantityOf(items, k - 1, p)
            + (IF items[k].product.id = p THEN items[k].quantity ELSE 0)

\* C40: with the stock of the catalogue unchanged, the quantity of a product
\* in a stored cart never exceeds the product's stock.
C40_QuantityWithinStock ==
    \A u \in DOMAIN carts : \A p \in ProductIds :
        QuantityOf(carts[u].items, Len(carts[u].items), p) <= products[p].stock

====
